---- MODULE Spec2Model ----
(***************************************************************************)
(* Recathon recommender life cycle in src/backend/tcop/utility.c:          *)
(* CREATE RECOMMENDER (case T_CreateRStmt with itemSimilarity,             *)
(* userSimilarity, SVDSimilarity) and DROP RECOMMENDER (case               *)
(* T_DropRecStmt), statement by statement, over a small relational engine. *)
(* Strings are sequences of one-character strings so that sprintf, tolower *)
(* and the engine's identifier folding are computed, not assumed.          *)
(***************************************************************************)
EXTENDS Integers, Sequences, FiniteSets, TLC

(* offered: the recommender names, methods, attribute lists and clock      *)
(* readings the requests of a run are drawn from; it never changes         *)
VARIABLES db, clock, users, sess, nreq, nfault, everBuilt, offered

vars == <<db, clock, users, sess, nreq, nfault, everBuilt, offered>>

(* ------------------------------ bounds --------------------------------- *)
MaxRequests == 2
MaxUsers == 3
MaxFaults == 1
(* largest tv_sec and tv_usec of the clock readings whose names are compared *)
MaxSec == 11
MaxUsec == 10

(* ------------------------------ strings -------------------------------- *)
UpperChars ==
  <<"A", "B", "C", "D", "E", "F", "G", "H", "I", "J", "K", "L", "M",
    "N", "O", "P", "Q", "R", "S", "T", "U", "V", "W", "X", "Y", "Z">>
LowerChars ==
  <<"a", "b", "c", "d", "e", "f", "g", "h", "i", "j", "k", "l", "m",
    "n", "o", "p", "q", "r", "s", "t", "u", "v", "w", "x", "y", "z">>

UpperSet == {UpperChars[i] : i \in 1..Len(UpperChars)}

LowerOf ==
  [c \in UpperSet |-> LowerChars[CHOOSE i \in 1..Len(UpperChars) : UpperChars[i] = c]]

tolower(c) == IF c \in UpperSet THEN LowerOf[c] ELSE c

ToLowerStr(str) == [i \in 1..Len(str) |-> tolower(str[i])]

DigitChars == <<"0", "1", "2", "3", "4", "5", "6", "7", "8", "9">>

RECURSIVE FormatLd(_)
FormatLd(n) ==
  IF n < 10 THEN <<DigitChars[n + 1]>>
  ELSE FormatLd(n \div 10) \o <<DigitChars[(n % 10) + 1]>>

S_Index == <<"I", "n", "d", "e", "x">>
S_index == <<"i", "n", "d", "e", "x">>
S_Model == <<"M", "o", "d", "e", "l">>
S_UserModel == <<"U", "s", "e", "r", "M", "o", "d", "e", "l">>
S_ItemModel == <<"I", "t", "e", "m", "M", "o", "d", "e", "l">>
S_View == <<"V", "i", "e", "w">>

RecModelsCatalogue ==
  <<"R", "e", "c", "M", "o", "d", "e", "l", "s",
    "C", "a", "t", "a", "l", "o", "g", "u", "e">>
recmodelscatalogue ==
  <<"r", "e", "c", "m", "o", "d", "e", "l", "s",
    "c", "a", "t", "a", "l", "o", "g", "u", "e">>
RecathonProperties ==
  <<"R", "e", "c", "a", "t", "h", "o", "n",
    "P", "r", "o", "p", "e", "r", "t", "i", "e", "s">>
recathonproperties ==
  <<"r", "e", "c", "a", "t", "h", "o", "n",
    "p", "r", "o", "p", "e", "r", "t", "i", "e", "s">>

(* sprintf(.., "%sIndex", relname) *)
RecIndexName(relname) == relname \o S_Index

(* "%ld%ld" of tv_sec, tv_usec: no padding, no separator *)
Suffix(ts) == FormatLd(ts[1]) \o FormatLd(ts[2])

(* sprintf(.., "%sModel%ld%ld", relname, tv_sec, tv_usec) *)
RecModelName(relname, ts) == relname \o S_Model \o Suffix(ts)
RecUserModelName(relname, ts) == relname \o S_UserModel \o Suffix(ts)
RecItemModelName(relname, ts) == relname \o S_ItemModel \o Suffix(ts)
(* "%sView%ld%ld" *)
RecViewName(relname, ts) == relname \o S_View \o Suffix(ts)

NULL == <<"NULL">>

(* --------------------------- request inputs ---------------------------- *)
(* relname as the parser delivers it: folded to lower case when the name   *)
(* is written bare, as written when it is quoted                           *)
RecNames == {<<"a">>, <<"b">>}
QuotedNames == {<<"A">>, <<"b">>}
ScenarioNames == {<<"a">>}
DropNames == {<<"a">>, <<"A">>, <<"b">>}

(* one identifier per builder strategy and per statistics routine *)
ItemMethods == {"itemcoscf"}
UserMethods == {"userpearcf"}
(* a recMethod value that is none of the five cases of switch (method) *)
UnknownMethods == {"unknown"}
KnownMethods == ItemMethods \cup UserMethods \cup {"svd"}
Methods == KnownMethods \cup UnknownMethods

AttLists == {<<>>, <<"region", "tier">>}
(* the scenario with the one context attribute region *)
ScenarioAttLists == {<<"region">>}

(* -------------------------- source relations --------------------------- *)
(* users(uid, region, tier) and ratings(uid, iid, rating); the rows are    *)
(* fixed per user id; the user table is empty or holds users 1..MaxUsers:  *)
(* users 1 and 2 share a combination, user 3 has another and no rating.    *)
UserRow(u) ==
  [uid |-> u,
   region |-> IF u % 3 = 0 THEN "s" ELSE "n",
   tier |-> IF u % 3 = 0 THEN "y" ELSE "x"]

UserTables == {{}, {UserRow(u) : u \in 1..MaxUsers}}

(* the scenario's user tables: k users over three regions, 0 <= k *)
ScenarioRow(u) ==
  [uid |-> u, region |-> <<"n", "s", "w">>[(u % 3) + 1], tier |-> "x"]

ScenarioTables == {{ScenarioRow(u) : u \in 1..k} : k \in 0..MaxUsers}

(* number of ratings the rating table holds for user u; user 3 has none *)
RatingsOf(u) == u % 3

(* ------------------------- relational engine --------------------------- *)
(* A database is a function from table identifiers to tables; a table is   *)
(* its column list and its rows, a row being a function from column name   *)
(* to value.  Serial key columns (recommenderId, systemId) and             *)
(* levelone_timestamp are left out.  Statements are independent: a failed  *)
(* statement changes nothing and earlier statements stay in effect.        *)

(* unquoted identifiers in SQL text are folded to lower case *)
Ident(name) == ToLowerStr(name)

relationExists(d, name) == Ident(name) \in DOMAIN d

CreateTable(d, name, cols) ==
  [t \in DOMAIN d \cup {Ident(name)} |->
     IF t \in DOMAIN d THEN d[t] ELSE [cols |-> cols, rows |-> <<>>]]

CreateTableIfNotExists(d, name, cols) ==
  IF relationExists(d, name) THEN d ELSE CreateTable(d, name, cols)

DropTable(d, name) == [t \in DOMAIN d \ {Ident(name)} |-> d[t]]

(* positional INSERT ... VALUES (v1, ..., vn) *)
MakeRow(cols, values) ==
  [c \in {cols[i] : i \in 1..Len(cols)} |->
     values[CHOOSE i \in 1..Len(cols) : cols[i] = c]]

CanInsert(d, name, values) ==
  /\ relationExists(d, name)
  /\ Len(values) = Len(d[Ident(name)].cols)

InsertInto(d, name, values) ==
  [d EXCEPT ![Ident(name)].rows = Append(@, MakeRow(d[Ident(name)].cols, values))]

SelectAll(d, name) == d[Ident(name)].rows

(* variant: delete from <name>, without the condition *)
DeleteAllRows(d, name, col, lit) == [d EXCEPT ![Ident(name)].rows = <<>>]

(* variant: a table the delete leaves without rows is dropped *)
DeleteWhereDropEmpty(d, name, col, lit) ==
  LET keep(r) == r[col] # lit
  IN IF SelectSeq(d[Ident(name)].rows, keep) = <<>>
     THEN [t \in DOMAIN d \ {Ident(name)} |-> d[t]]
     ELSE [d EXCEPT ![Ident(name)].rows = SelectSeq(@, keep)]

(* delete from <name> where <col> = '<lit>' *)
DeleteWhere(d, name, col, lit) ==
  LET keep(r) == r[col] # lit
  IN [d EXCEPT ![Ident(name)].rows = SelectSeq(@, keep)]

(* value of a named column of a tuple, NULL when there is no such column *)
getTupleString(slot, col) == IF col \in DOMAIN slot THEN slot[col] ELSE NULL

SeqRange(q) == {q[i] : i \in 1..Len(q)}

(* SELECT DISTINCT <atts> FROM <user table>: the set of result tuples *)
DistinctProjection(rows, atts) ==
  {[a \in SeqRange(atts) |-> r[a]] : r \in rows}

(* every order in which a cursor may return the tuples of a result set *)
Orderings(S) ==
  {q \in [1..Cardinality(S) -> S] : \A i, j \in 1..Cardinality(S) : q[i] = q[j] => i = j}

(* ------------------------------ schemas -------------------------------- *)
CatalogueCols ==
  <<"recommenderindexname", "usertable", "itemtable", "ratingtable",
    "userkey", "itemkey", "ratingval", "method", "contextattributes">>

PropertiesCols == <<"update_threshold", "tail_length", "verbose_queries">>

CounterCols ==
  <<"recviewname", "updatecounter", "ratingtotal", "querycounter",
    "updaterate", "queryrate">>

(* variant: one model-name column for every family *)
IndexColsOneModel(method, atts) == <<"recmodelname">> \o CounterCols \o atts

IndexCols(method, atts) ==
  (IF method = "svd" THEN <<"recusermodelname", "recitemmodelname">>
   ELSE <<"recmodelname">>) \o CounterCols \o atts

ItemModelCols == <<"item1", "item2", "similarity">>
UserModelCols == <<"user1", "user2", "similarity">>
SvdUserModelCols == <<"users", "feature", "value">>
SvdItemModelCols == <<"items", "feature", "value">>
ViewCols == <<"userkey", "itemkey", "recscore">>

(* ------------------------- catalog lookups ----------------------------- *)
CatalogueRows(d) ==
  IF relationExists(d, recmodelscatalogue)
  THEN SelectAll(d, recmodelscatalogue) ELSE <<>>

recommenderExists(d, recname) ==
  \E i \in 1..Len(CatalogueRows(d)) :
     CatalogueRows(d)[i].recommenderindexname = RecIndexName(recname)

(* variant: the method of the first row of the recommender list *)
getRecInfoFirstRow(d, recindexname) ==
  IF CatalogueRows(d) = <<>> THEN "none" ELSE CatalogueRows(d)[1].method

(* the method column of the recommender's catalogue row *)
getRecInfo(d, recindexname) ==
  LET rows == CatalogueRows(d)
      hit == {i \in 1..Len(rows) : rows[i].recommenderindexname = recindexname}
  IN IF hit = {} THEN "none"
     ELSE rows[CHOOSE i \in hit : \A j \in hit : i <= j].method

(* --------------------------- modeling backend -------------------------- *)
RECURSIVE SumRatings(_)
SumRatings(S) ==
  IF S = {} THEN 0
  ELSE LET r == CHOOSE x \in S : TRUE
       IN RatingsOf(r.uid) + SumRatings(S \ {r})

(* ratings consumed for a cell: those of the users matching the filter *)
populateModel(rows, attnames, attvalues) ==
  SumRatings({r \in rows : \A j \in 1..Len(attnames) : r[attnames[j]] = attvalues[j]})

(* vector_lengths / pearson_info: the per-entity arrays computed from the  *)
(* whole rating relation, abstracted to the number of ratings they cover   *)
PrecomputeStats(usertable) == SumRatings(usertable)

(* ------------------------------- clock --------------------------------- *)
Readings == {<<1, 3>>, <<1, 23>>, <<12, 3>>}
ScenarioReadings == Readings \cup {<<12, 4>>}

Later(t1, t2) == t1[1] < t2[1] \/ (t1[1] = t2[1] /\ t1[2] <= t2[2])

(* ------------------------------ state ---------------------------------- *)
Sessions == {1}

(* no statistics: the arrays are not set, or the call takes none *)
NoStats == -1

IdleSess ==
  [pc |-> "idle", kind |-> "none", name |-> <<>>, method |-> "none",
   atts |-> <<>>, cursor |-> <<>>, attvalues |-> <<>>, ts |-> <<0, 0>>,
   numRatings |-> 0, iter |-> <<>>, returned |-> <<>>, gen |-> <<>>,
   stats |-> 0, statsval |-> NoStats, passed |-> <<>>,
   cells |-> <<>>, err |-> "none", warned |-> FALSE, unset |-> FALSE]

EmptyDb == [t \in {} |-> <<>>]

Init ==
  /\ db = EmptyDb
  /\ clock = <<1, 3>>
  /\ users \in UserTables
  /\ sess = [s \in Sessions |-> IdleSess]
  /\ nreq = 0
  /\ nfault = 0
  /\ everBuilt = {}
  /\ offered = [names |-> RecNames, methods |-> KnownMethods,
                atts |-> AttLists, readings |-> Readings]

(* the same, for a client that writes the recommender name "A" quoted *)
InitQuoted ==
  /\ db = EmptyDb
  /\ clock = <<1, 3>>
  /\ users \in UserTables
  /\ sess = [s \in Sessions |-> IdleSess]
  /\ nreq = 0
  /\ nfault = 0
  /\ everBuilt = {}
  /\ offered = [names |-> QuotedNames, methods |-> KnownMethods,
                atts |-> AttLists, readings |-> Readings]

(* the same, for the scenario of one context attribute *)
InitScenario ==
  /\ db = EmptyDb
  /\ clock = <<1, 3>>
  /\ users \in ScenarioTables
  /\ sess = [s \in Sessions |-> IdleSess]
  /\ nreq = 0
  /\ nfault = 0
  /\ everBuilt = {}
  /\ offered = [names |-> ScenarioNames, methods |-> KnownMethods,
                atts |-> ScenarioAttLists, readings |-> ScenarioReadings]

(* the same, for requests whose method validation leaves as a value that   *)
(* is none of the five                                                     *)
InitUnknown ==
  /\ db = EmptyDb
  /\ clock = <<1, 3>>
  /\ users \in UserTables
  /\ sess = [s \in Sessions |-> IdleSess]
  /\ nreq = 0
  /\ nfault = 0
  /\ everBuilt = {}
  /\ offered = [names |-> RecNames, methods |-> Methods,
                atts |-> AttLists, readings |-> Readings]

Resting == {"idle", "cataloged", "failed", "done", "rejected"}

(* variant: the error is reported but the request is not ended *)
FailAndGoOn(r, msg) == [r EXCEPT !.err = msg]

(* ereport(ERROR, ...): the request ends where it stands *)
Fail(r, msg) == [r EXCEPT !.pc = "failed", !.err = msg]

Goto(r, label) == [r EXCEPT !.pc = label]


Set(s, r) == sess' = [sess EXCEPT ![s] = r]

(* One statement handed to the engine or to the modeling backend: it takes *)
(* effect, or it raises an error because it cannot be executed, or the     *)
(* backend fails on it; an error ends the request where it stands.         *)
Statement(s, executable, newdb, next) ==
  \/ /\ executable
     /\ db' = newdb
     /\ Set(s, next)
     /\ UNCHANGED nfault
  \/ /\ ~executable
     /\ Set(s, Fail(sess[s], "statement"))
     /\ UNCHANGED <<db, nfault>>
  \/ /\ executable
     /\ nfault < MaxFaults
     /\ nfault' = nfault + 1
     /\ Set(s, Fail(sess[s], "backend"))
     /\ UNCHANGED db

(* ======================= CREATE RECOMMENDER ============================ *)

(* validateCreateRStmt: a malformed request, or one naming a recommender   *)
(* that already exists, is rejected before anything is created             *)
validateCreateRStmt(d, relname, wellformed) ==
  wellformed /\ ~recommenderExists(d, relname)

(* The names "a" and "b" are interchangeable: of the runs that differ only *)
(* by exchanging them, those that build "a" first are explored.            *)
FirstNameFirst(relname) ==
  <<"a">> \notin offered.names \/ relname = <<"a">> \/ everBuilt # {}

BeginCreate(s) ==
  /\ sess[s].pc \in Resting
  /\ nreq < MaxRequests
  /\ nreq' = nreq + 1
  /\ \E relname \in offered.names, method \in offered.methods, atts \in offered.atts,
        wellformed \in BOOLEAN :
       /\ FirstNameFirst(relname)
       /\ LET r == [IdleSess EXCEPT !.kind = "create", !.name = relname,
                                 !.method = method, !.atts = atts]
          IN IF validateCreateRStmt(db, relname, wellformed)
             THEN /\ Set(s, Goto(r, "c_catalogue"))
                  /\ everBuilt' = everBuilt \cup {relname}
             ELSE /\ Set(s, [r EXCEPT !.pc = "rejected", !.err = "invalid"])
                  /\ UNCHANGED everBuilt
  /\ UNCHANGED <<db, clock, users, nfault, offered>>

(* CREATE TABLE IF NOT EXISTS RecModelsCatalogue (...) *)
CreateCatalogue(s) ==
  /\ sess[s].pc = "c_catalogue"
  /\ Statement(s, TRUE,
               CreateTableIfNotExists(db, RecModelsCatalogue, CatalogueCols),
               Goto(sess[s], "c_insert"))
  /\ UNCHANGED <<clock, users, nreq, everBuilt, offered>>

CatalogueValues(r) ==
  <<RecIndexName(r.name), "users", "items", "ratings", "uid", "iid", "rating",
    r.method, Len(r.atts)>>

(* INSERT INTO RecModelsCatalogue VALUES (default, '<name>Index', ...) *)
InsertCatalogueRow(s) ==
  /\ sess[s].pc = "c_insert"
  /\ Statement(s, CanInsert(db, RecModelsCatalogue, CatalogueValues(sess[s])),
               InsertInto(db, RecModelsCatalogue, CatalogueValues(sess[s])),
               Goto(sess[s], "c_propcheck"))
  /\ UNCHANGED <<clock, users, nreq, everBuilt, offered>>

(* variant: only the table creation is guarded, the insert always runs *)
PropertiesBranchInsertAlways(d) ==
  IF relationExists(d, recathonproperties) THEN "c_propinsert" ELSE "c_propcreate"

(* if (!relationExists(proprv)) { create the table, insert the defaults } *)
PropertiesBranch(d) ==
  IF relationExists(d, recathonproperties) THEN "c_index" ELSE "c_propcreate"

CheckProperties(s) ==
  /\ sess[s].pc = "c_propcheck"
  /\ Set(s, Goto(sess[s], PropertiesBranch(db)))
  /\ UNCHANGED <<db, clock, users, nreq, nfault, everBuilt, offered>>

(* variant: CREATE TABLE IF NOT EXISTS RecathonProperties (...) *)
CreatePropertiesIfNotExists(s) ==
  /\ sess[s].pc = "c_propcreate"
  /\ Statement(s, TRUE,
               CreateTableIfNotExists(db, RecathonProperties, PropertiesCols),
               Goto(sess[s], "c_propinsert"))
  /\ UNCHANGED <<clock, users, nreq, everBuilt, offered>>

(* CREATE TABLE RecathonProperties (...) *)
CreateProperties(s) ==
  /\ sess[s].pc = "c_propcreate"
  /\ Statement(s, ~relationExists(db, RecathonProperties),
               CreateTable(db, RecathonProperties, PropertiesCols),
               Goto(sess[s], "c_propinsert"))
  /\ UNCHANGED <<clock, users, nreq, everBuilt, offered>>

PropertiesDefaults == <<"0.5", 0, TRUE>>

(* INSERT INTO RecathonProperties VALUES (0.5, 0, true) *)
InsertProperties(s) ==
  /\ sess[s].pc = "c_propinsert"
  /\ Statement(s, CanInsert(db, RecathonProperties, PropertiesDefaults),
               InsertInto(db, RecathonProperties, PropertiesDefaults),
               Goto(sess[s], "c_index"))
  /\ UNCHANGED <<clock, users, nreq, everBuilt, offered>>

(* CREATE TABLE <name>Index (..., <att> VARCHAR NOT NULL, ...) *)
CreateIndexTable(s) ==
  /\ sess[s].pc = "c_index"
  /\ Statement(s, ~relationExists(db, RecIndexName(sess[s].name)),
               CreateTable(db, RecIndexName(sess[s].name),
                           IndexCols(sess[s].method, sess[s].atts)),
               Goto(sess[s], "c_dispatch"))
  /\ UNCHANGED <<clock, users, nreq, everBuilt, offered>>

(* variant: the statistics are not precomputed before the cells *)
DispatchMethodNoStats(s) ==
  /\ sess[s].pc = "c_dispatch"
  /\ IF sess[s].method \in Methods \ UnknownMethods
     THEN Set(s, Goto(sess[s], "c_open"))
     ELSE Set(s, Fail(sess[s], "method not recognized"))
  /\ UNCHANGED <<db, clock, users, nreq, nfault, everBuilt, offered>>

(* switch (method): itemSimilarity / userSimilarity / SVDSimilarity; the   *)
(* CF strategies first precompute the statistics (vector_lengths or        *)
(* pearson_info) over the whole source relation                            *)
DispatchMethod(s) ==
  /\ sess[s].pc = "c_dispatch"
  /\ IF sess[s].method \in ItemMethods \cup UserMethods
     THEN Set(s, [sess[s] EXCEPT !.pc = "c_open", !.stats = @ + 1,
                                 !.statsval = PrecomputeStats(users)])
     ELSE IF sess[s].method = "svd"
          THEN Set(s, Goto(sess[s], "c_open"))
          ELSE Set(s, Fail(sess[s], "method not recognized"))
  /\ UNCHANGED <<db, clock, users, nreq, nfault, everBuilt, offered>>

(* variant: the combinations are taken from the users that have ratings *)
PartitionQueryRated(usertable, atts) ==
  DistinctProjection({r \in usertable : RatingsOf(r.uid) > 0}, atts)

(* "SELECT DISTINCT <att>, ... FROM <usertable>;" *)
PartitionQuery(usertable, atts) == DistinctProjection(usertable, atts)

(* if (numatts > 0) queryDesc = recathon_queryStart(attquerystring, ..);   *)
(* else the single context-free cell                                       *)
OpenPartition(s) ==
  /\ sess[s].pc = "c_open"
  /\ IF Len(sess[s].atts) > 0
     THEN \E q \in Orderings(PartitionQuery(users, sess[s].atts)) :
            Statement(s, TRUE, db, [sess[s] EXCEPT !.pc = "c_fetch", !.cursor = q])
     ELSE /\ Set(s, [sess[s] EXCEPT !.pc = "c_time", !.iter = <<<<>>>>])
          /\ UNCHANGED <<db, nfault>>
  /\ UNCHANGED <<clock, users, nreq, everBuilt, offered>>

(* variant: the cursor returns its first tuple again *)
FetchCellNoAdvance(s) ==
  /\ sess[s].pc = "c_fetch"
  /\ IF sess[s].cursor = <<>>
     THEN Set(s, Goto(sess[s], "c_cleanup"))
     ELSE LET slot == Head(sess[s].cursor)
              vals == [j \in 1..Len(sess[s].atts) |->
                         getTupleString(slot, sess[s].atts[j])]
          IN Set(s, [sess[s] EXCEPT !.pc = "c_time",
                                    !.attvalues = vals,
                                    !.iter = Append(@, vals)])
  /\ UNCHANGED <<db, clock, users, nreq, nfault, everBuilt, offered>>

(* slot = ExecProcNode(planstate); if (TupIsNull(slot)) break;             *)
(* attvalues[j] = getTupleString(slot, attnames[j])                        *)
FetchCell(s) ==
  /\ sess[s].pc = "c_fetch"
  /\ IF sess[s].cursor = <<>>
     THEN Set(s, Goto(sess[s], "c_cleanup"))
     ELSE LET slot == Head(sess[s].cursor)
              vals == [j \in 1..Len(sess[s].atts) |->
                         getTupleString(slot, sess[s].atts[j])]
          IN Set(s, [sess[s] EXCEPT !.pc = "c_time",
                                    !.cursor = Tail(@),
                                    !.attvalues = vals,
                                    !.iter = Append(@, vals)])
  /\ UNCHANGED <<db, clock, users, nreq, nfault, everBuilt, offered>>

(* gettimeofday(&timestamp, NULL) *)
ReadClock(s) ==
  /\ sess[s].pc = "c_time"
  /\ \E t \in offered.readings :
       /\ Later(clock, t)
       /\ clock' = t
       /\ Set(s, [sess[s] EXCEPT !.pc = "c_model", !.ts = t, !.gen = Append(@, t)])
  /\ UNCHANGED <<db, users, nreq, nfault, everBuilt, offered>>

ModelName1(r) ==
  IF r.method = "svd" THEN RecUserModelName(r.name, r.ts)
  ELSE RecModelName(r.name, r.ts)

ModelCols1(r) ==
  IF r.method = "svd" THEN SvdUserModelCols
  ELSE IF r.method \in ItemMethods THEN ItemModelCols ELSE UserModelCols

(* variant: CREATE TABLE IF NOT EXISTS <recmodelname> (...) *)
CreateModelIfNotExists(s) ==
  /\ sess[s].pc = "c_model"
  /\ Statement(s, TRUE,
               CreateTableIfNotExists(db, ModelName1(sess[s]), ModelCols1(sess[s])),
               Goto(sess[s], IF sess[s].method = "svd" THEN "c_model2" ELSE "c_view"))
  /\ UNCHANGED <<clock, users, nreq, everBuilt, offered>>

(* CREATE TABLE <recmodelname> (...) *)
CreateModel(s) ==
  /\ sess[s].pc = "c_model"
  /\ Statement(s, ~relationExists(db, ModelName1(sess[s])),
               CreateTable(db, ModelName1(sess[s]), ModelCols1(sess[s])),
               Goto(sess[s], IF sess[s].method = "svd" THEN "c_model2" ELSE "c_view"))
  /\ UNCHANGED <<clock, users, nreq, everBuilt, offered>>

(* SVD: CREATE TABLE <recitemmodelname> (...) *)
CreateItemModel(s) ==
  /\ sess[s].pc = "c_model2"
  /\ Statement(s, ~relationExists(db, RecItemModelName(sess[s].name, sess[s].ts)),
               CreateTable(db, RecItemModelName(sess[s].name, sess[s].ts),
                           SvdItemModelCols),
               Goto(sess[s], "c_view"))
  /\ UNCHANGED <<clock, users, nreq, everBuilt, offered>>

(* variant: the view table is not created *)
CreateViewSkipped(s) ==
  /\ sess[s].pc = "c_view"
  /\ Set(s, Goto(sess[s], "c_dummy"))
  /\ UNCHANGED <<db, clock, users, nreq, nfault, everBuilt, offered>>

(* CREATE TABLE <name>View<sec><usec> (...) *)
CreateView(s) ==
  /\ sess[s].pc = "c_view"
  /\ Statement(s, ~relationExists(db, RecViewName(sess[s].name, sess[s].ts)),
               CreateTable(db, RecViewName(sess[s].name, sess[s].ts), ViewCols),
               Goto(sess[s], "c_dummy"))
  /\ UNCHANGED <<clock, users, nreq, everBuilt, offered>>

DummyTuple == <<-1, -1, -1>>

(* variant: the view is left without its placeholder row *)
InsertDummySkipped(s) ==
  /\ sess[s].pc = "c_dummy"
  /\ Set(s, Goto(sess[s], "c_populate"))
  /\ UNCHANGED <<db, clock, users, nreq, nfault, everBuilt, offered>>

(* INSERT INTO <name>View<sec><usec> VALUES(-1,-1,-1) *)
InsertDummy(s) ==
  /\ sess[s].pc = "c_dummy"
  /\ Statement(s, CanInsert(db, RecViewName(sess[s].name, sess[s].ts), DummyTuple),
               InsertInto(db, RecViewName(sess[s].name, sess[s].ts), DummyTuple),
               Goto(sess[s], "c_populate"))
  /\ UNCHANGED <<clock, users, nreq, everBuilt, offered>>

(* variant: the statistics are computed again for the cell, over the rows  *)
(* of its context                                                          *)
StatsArgumentPerCell(r) ==
  IF r.method = "svd" THEN NoStats
  ELSE populateModel(users, r.atts, r.attvalues)

(* the statistics arrays handed to the backend call of a cell: those of    *)
(* the routine's local variables; SVDsimilarity takes none                 *)
StatsArgument(r) == IF r.method = "svd" THEN NoStats ELSE r.statsval

(* numRatings = updateItemCosModel(...) and its siblings *)
PopulateModel(s) ==
  /\ sess[s].pc = "c_populate"
  /\ Statement(s, TRUE, db,
               [sess[s] EXCEPT
                  !.pc = "c_row",
                  !.numRatings = populateModel(users, sess[s].atts, sess[s].attvalues),
                  !.returned = Append(@, populateModel(users, sess[s].atts,
                                                       sess[s].attvalues)),
                  !.passed = Append(@, StatsArgument(sess[s]))])
  /\ UNCHANGED <<clock, users, nreq, everBuilt, offered>>

(* variant: the row is written with the initial numRatings = 0 *)
IndexValuesZeroTotal(r) ==
  (IF r.method = "svd"
   THEN <<RecUserModelName(r.name, r.ts), RecItemModelName(r.name, r.ts)>>
   ELSE <<RecModelName(r.name, r.ts)>>)
  \o <<RecViewName(r.name, r.ts), 0, 0, 0, "0.0", "0.0">>
  \o r.attvalues

(* variant: the rating count is written into the update counter *)
IndexValuesCounterTotal(r) ==
  (IF r.method = "svd"
   THEN <<RecUserModelName(r.name, r.ts), RecItemModelName(r.name, r.ts)>>
   ELSE <<RecModelName(r.name, r.ts)>>)
  \o <<RecViewName(r.name, r.ts), r.numRatings, 0, 0, "0.0", "0.0">>
  \o r.attvalues

(* variant: the attribute values are appended last attribute first *)
IndexValuesReversed(r) ==
  (IF r.method = "svd"
   THEN <<RecUserModelName(r.name, r.ts), RecItemModelName(r.name, r.ts)>>
   ELSE <<RecModelName(r.name, r.ts)>>)
  \o <<RecViewName(r.name, r.ts), 0, r.numRatings, 0, "0.0", "0.0">>
  \o [j \in 1..Len(r.attvalues) |-> r.attvalues[Len(r.attvalues) + 1 - j]]

(* VALUES (default, '<model>', ['<model2>',] '<view>', 0, numRatings, 0,   *)
(* 0.0, 0.0, localtimestamp, '<attvalues[0]>', ...)                        *)
IndexValues(r) ==
  (IF r.method = "svd"
   THEN <<RecUserModelName(r.name, r.ts), RecItemModelName(r.name, r.ts)>>
   ELSE <<RecModelName(r.name, r.ts)>>)
  \o <<RecViewName(r.name, r.ts), 0, r.numRatings, 0, "0.0", "0.0">>
  \o r.attvalues

(* variant: the index rows are not written while the cells are built *)
InsertIndexRowDeferred(s) ==
  /\ sess[s].pc = "c_row"
  /\ Set(s, Goto(sess[s], IF Len(sess[s].atts) > 0 THEN "c_fetch" ELSE "cataloged"))
  /\ UNCHANGED <<db, clock, users, nreq, nfault, everBuilt, offered>>

(* INSERT INTO <name>Index VALUES (...) *)
InsertIndexRow(s) ==
  /\ sess[s].pc = "c_row"
  /\ Statement(s, CanInsert(db, RecIndexName(sess[s].name), IndexValues(sess[s])),
               InsertInto(db, RecIndexName(sess[s].name), IndexValues(sess[s])),
               Goto(sess[s], IF Len(sess[s].atts) > 0 THEN "c_fetch" ELSE "cataloged"))
  /\ UNCHANGED <<clock, users, nreq, everBuilt, offered>>

(* recathon_queryEnd; pfree(attnames[i]); pfree(attvalues[i]):             *)
(* attvalues[i] was never assigned when the cursor returned no tuple, and  *)
(* freeing it is undefined: the build goes on or the backend dies          *)
CleanupPartition(s) ==
  /\ sess[s].pc = "c_cleanup"
  /\ IF sess[s].iter = <<>>
     THEN \/ Set(s, [sess[s] EXCEPT !.pc = "cataloged", !.unset = TRUE])
          \/ Set(s, [sess[s] EXCEPT !.pc = "failed", !.unset = TRUE, !.err = "crash"])
     ELSE Set(s, Goto(sess[s], "cataloged"))
  /\ UNCHANGED <<db, clock, users, nreq, nfault, everBuilt, offered>>

CreateStep(s) ==
  \/ BeginCreate(s) \/ CreateCatalogue(s) \/ InsertCatalogueRow(s)
  \/ CheckProperties(s) \/ CreateProperties(s) \/ InsertProperties(s)
  \/ CreateIndexTable(s) \/ DispatchMethod(s) \/ OpenPartition(s)
  \/ FetchCell(s) \/ ReadClock(s) \/ CreateModel(s) \/ CreateItemModel(s)
  \/ CreateView(s) \/ InsertDummy(s) \/ PopulateModel(s)
  \/ InsertIndexRow(s) \/ CleanupPartition(s)

(* ======================== DROP RECOMMENDER ============================= *)

(* recname[i] = tolower(recname[i]) *)
BeginDrop(s) ==
  /\ sess[s].pc \in Resting
  /\ nreq < MaxRequests
  /\ nreq' = nreq + 1
  /\ \E given \in DropNames :
       Set(s, [IdleSess EXCEPT !.kind = "drop", !.name = ToLowerStr(given),
                               !.pc = "d_catalogue"])
  /\ UNCHANGED <<db, clock, users, nfault, everBuilt, offered>>

(* variant: the recommender is not looked up *)
ResolveErrorNoLookup(d, recname) ==
  IF ~relationExists(d, recmodelscatalogue)
  THEN "no recommenders have been created"
  ELSE "none"

(* variant: the recommender is looked up before the catalogue is checked *)
ResolveErrorLookupFirst(d, recname) ==
  IF ~recommenderExists(d, recname)
  THEN "recommender does not exist"
  ELSE IF ~relationExists(d, recmodelscatalogue)
       THEN "no recommenders have been created"
       ELSE "none"

(* if (!relationExists(cataloguerv)) ereport(ERROR, "no recommenders have  *)
(* been created"); if (!recommenderExists(recname)) ereport(ERROR,         *)
(* "recommender %s does not exist")                                        *)
ResolveError(d, recname) ==
  IF ~relationExists(d, recmodelscatalogue)
  THEN "no recommenders have been created"
  ELSE IF ~recommenderExists(d, recname)
       THEN "recommender does not exist"
       ELSE "none"

(* the two checks, then getRecInfo(recindexname, .., &method, NULL) *)
ResolveRecommender(s) ==
  /\ sess[s].pc = "d_catalogue"
  /\ IF ResolveError(db, sess[s].name) # "none"
     THEN Set(s, Fail(sess[s], ResolveError(db, sess[s].name)))
     ELSE Set(s, [sess[s] EXCEPT
                    !.pc = "d_open",
                    !.method = getRecInfo(db, RecIndexName(sess[s].name))])
  /\ UNCHANGED <<db, clock, users, nreq, nfault, everBuilt, offered>>

(* recathon_queryStart("select * from <recname>index;") *)
OpenIndex(s) ==
  /\ sess[s].pc = "d_open"
  /\ Statement(s, relationExists(db, sess[s].name \o S_index), db,
               [sess[s] EXCEPT !.pc = "d_scan",
                               !.cursor = SelectAll(db, sess[s].name \o S_index)])
  /\ UNCHANGED <<clock, users, nreq, everBuilt, offered>>

(* variant: only one model name is read, whatever the method *)
NewCellOneModel(method, slot) ==
  [modelname1 |-> IF method = "svd" THEN getTupleString(slot, "recusermodelname")
                  ELSE getTupleString(slot, "recmodelname"),
   modelname2 |-> NULL,
   viewname |-> getTupleString(slot, "recviewname")]

(* new_cell filled from one tuple of the index table *)
NewCell(method, slot) ==
  [modelname1 |-> IF method = "svd" THEN getTupleString(slot, "recusermodelname")
                  ELSE getTupleString(slot, "recmodelname"),
   modelname2 |-> IF method = "svd" THEN getTupleString(slot, "recitemmodelname")
                  ELSE NULL,
   viewname |-> getTupleString(slot, "recviewname")]

(* variant: the index table is dropped right after the scan *)
EndScanNoLoop(r) == [r EXCEPT !.pc = "d_index", !.warned = (r.cells = <<>>)]

(* variant: finding no cell is an ERROR *)
EndScanFatal(r) ==
  IF r.cells = <<>> THEN Fail(r, "failed to find cells")
  ELSE [r EXCEPT !.pc = "d_model1"]

(* recathon_queryEnd; if (!chead) ereport(WARNING, "failed to find cells   *)
(* for recommender %s"); then the drop loop, empty when chead is NULL      *)
EndScan(r) ==
  [r EXCEPT !.pc = IF r.cells = <<>> THEN "d_index" ELSE "d_model1",
            !.warned = (r.cells = <<>>)]

(* for (;;) { slot = ExecProcNode(planstate); if (TupIsNull(slot)) break;  *)
(* ... append new_cell }                                                   *)
ScanIndex(s) ==
  /\ sess[s].pc = "d_scan"
  /\ IF sess[s].cursor = <<>>
     THEN Set(s, EndScan(sess[s]))
     ELSE Set(s, [sess[s] EXCEPT
                    !.cursor = Tail(@),
                    !.iter = Append(@, Head(sess[s].cursor)),
                    !.cells = Append(@, NewCell(sess[s].method, Head(sess[s].cursor)))])
  /\ UNCHANGED <<db, clock, users, nreq, nfault, everBuilt, offered>>

(* the cell the drop loop stands at (ctemp) *)
CurrentCell(r) == Head(r.cells)

(* if (ctemp->modelname1) "drop table <modelname1>;" *)
DropModel1(s) ==
  /\ sess[s].pc = "d_model1"
  /\ IF CurrentCell(sess[s]).modelname1 = NULL
     THEN /\ Set(s, Goto(sess[s], "d_model2"))
          /\ UNCHANGED <<db, nfault>>
     ELSE Statement(s, relationExists(db, CurrentCell(sess[s]).modelname1),
                    DropTable(db, CurrentCell(sess[s]).modelname1),
                    Goto(sess[s], "d_model2"))
  /\ UNCHANGED <<clock, users, nreq, everBuilt, offered>>

(* if (ctemp->modelname2) "drop table <modelname2>;" *)
DropModel2(s) ==
  /\ sess[s].pc = "d_model2"
  /\ IF CurrentCell(sess[s]).modelname2 = NULL
     THEN /\ Set(s, Goto(sess[s], "d_view"))
          /\ UNCHANGED <<db, nfault>>
     ELSE Statement(s, relationExists(db, CurrentCell(sess[s]).modelname2),
                    DropTable(db, CurrentCell(sess[s]).modelname2),
                    Goto(sess[s], "d_view"))
  /\ UNCHANGED <<clock, users, nreq, everBuilt, offered>>

(* variant: the view of a cell is not dropped *)
DropViewSkipped(s) ==
  /\ sess[s].pc = "d_view"
  /\ Set(s, [sess[s] EXCEPT
               !.cells = Tail(@),
               !.pc = IF Tail(sess[s].cells) = <<>> THEN "d_index" ELSE "d_model1"])
  /\ UNCHANGED <<db, clock, users, nreq, nfault, everBuilt, offered>>

(* if (ctemp->viewname) "drop table <viewname>;" and ctemp = ctemp->next *)
DropView(s) ==
  /\ sess[s].pc = "d_view"
  /\ LET next == [sess[s] EXCEPT
                    !.cells = Tail(@),
                    !.pc = IF Tail(sess[s].cells) = <<>> THEN "d_index" ELSE "d_model1"]
     IN IF CurrentCell(sess[s]).viewname = NULL
        THEN /\ Set(s, next)
             /\ UNCHANGED <<db, nfault>>
        ELSE Statement(s, relationExists(db, CurrentCell(sess[s]).viewname),
                       DropTable(db, CurrentCell(sess[s]).viewname), next)
  /\ UNCHANGED <<clock, users, nreq, everBuilt, offered>>

(* "drop table <recname>index;" *)
DropIndex(s) ==
  /\ sess[s].pc = "d_index"
  /\ Statement(s, relationExists(db, sess[s].name \o S_index),
               DropTable(db, sess[s].name \o S_index),
               Goto(sess[s], "d_delete"))
  /\ UNCHANGED <<clock, users, nreq, everBuilt, offered>>

(* "delete from recmodelscatalogue where recommenderindexname =            *)
(* '<recname>Index';"                                                      *)
DeleteCatalogueRow(s) ==
  /\ sess[s].pc = "d_delete"
  /\ Statement(s, relationExists(db, recmodelscatalogue),
               DeleteWhere(db, recmodelscatalogue, "recommenderindexname",
                           RecIndexName(sess[s].name)),
               Goto(sess[s], "done"))
  /\ UNCHANGED <<clock, users, nreq, everBuilt, offered>>

DropStep(s) ==
  \/ BeginDrop(s) \/ ResolveRecommender(s) \/ OpenIndex(s) \/ ScanIndex(s)
  \/ DropModel1(s) \/ DropModel2(s) \/ DropView(s)
  \/ DropIndex(s) \/ DeleteCatalogueRow(s)

(* --------------- a catalog that already holds a recommender ------------ *)
(* the cell of recommender "b", an item CF recommender without context    *)
(* attributes built when the clock read (1, 3)                             *)
PrebuiltCell ==
  [IdleSess EXCEPT !.kind = "create", !.name = <<"b">>, !.method = "itemcoscf",
                   !.ts = <<1, 3>>,
                   !.numRatings = populateModel(users, <<>>, <<>>)]

(* the database its build leaves: the statements of the handler and of     *)
(* itemSimilarity's context-free branch, in their order                    *)
PrebuiltDb ==
  LET r == PrebuiltCell
      d1 == CreateTableIfNotExists(EmptyDb, RecModelsCatalogue, CatalogueCols)
      d2 == InsertInto(d1, RecModelsCatalogue, CatalogueValues(r))
      d3 == CreateTable(d2, RecathonProperties, PropertiesCols)
      d4 == InsertInto(d3, RecathonProperties, PropertiesDefaults)
      d5 == CreateTable(d4, RecIndexName(r.name), IndexCols(r.method, r.atts))
      d6 == CreateTable(d5, ModelName1(r), ModelCols1(r))
      d7 == CreateTable(d6, RecViewName(r.name, r.ts), ViewCols)
      d8 == InsertInto(d7, RecViewName(r.name, r.ts), DummyTuple)
  IN InsertInto(d8, RecIndexName(r.name), IndexValues(r))

(* requests for the one name "a", on an empty database or on one in which  *)
(* recommender "b" was built before                                        *)
InitPrebuilt ==
  /\ users \in UserTables
  /\ db \in {EmptyDb, PrebuiltDb}
  /\ clock = <<1, 3>>
  /\ sess = [s \in Sessions |-> IdleSess]
  /\ nreq = 0
  /\ nfault = 0
  /\ everBuilt = IF db = EmptyDb THEN {} ELSE {<<"b">>}
  /\ offered = [names |-> ScenarioNames, methods |-> KnownMethods,
                atts |-> AttLists, readings |-> Readings]

(* ----------------- a catalog left by one finished build ---------------- *)
(* the cell of recommender "b" built without context attributes by the     *)
(* given method when the clock read ts                                     *)
RoundTripCell(method, ts) ==
  [IdleSess EXCEPT !.kind = "create", !.name = <<"b">>, !.method = method,
                   !.ts = ts,
                   !.numRatings = populateModel(users, <<>>, <<>>)]

(* the database that build leaves when it starts from the empty database:  *)
(* the statements of the handler and of the strategy's context-free        *)
(* branch, in their order                                                  *)
RoundTripDb(method, ts) ==
  LET r == RoundTripCell(method, ts)
      d1 == CreateTableIfNotExists(EmptyDb, RecModelsCatalogue, CatalogueCols)
      d2 == InsertInto(d1, RecModelsCatalogue, CatalogueValues(r))
      d3 == CreateTable(d2, RecathonProperties, PropertiesCols)
      d4 == InsertInto(d3, RecathonProperties, PropertiesDefaults)
      d5 == CreateTable(d4, RecIndexName(r.name), IndexCols(r.method, r.atts))
      d6 == CreateTable(d5, ModelName1(r), ModelCols1(r))
      d7 == IF method = "svd"
            THEN CreateTable(d6, RecItemModelName(r.name, r.ts), SvdItemModelCols)
            ELSE d6
      d8 == CreateTable(d7, RecViewName(r.name, r.ts), ViewCols)
      d9 == InsertInto(d8, RecViewName(r.name, r.ts), DummyTuple)
  IN InsertInto(d9, RecIndexName(r.name), IndexValues(r))

(* no build has run yet *)
NotBuilt == "none"

(* requests for the one name "b", on an empty database or on the one its   *)
(* build by one of the methods has left; offered.built keeps that method   *)
InitRoundTrip ==
  /\ users \in UserTables
  /\ clock = <<1, 3>>
  /\ sess = [s \in Sessions |-> IdleSess]
  /\ nreq = 0
  /\ nfault = 0
  /\ \E built \in KnownMethods \cup {NotBuilt} :
       /\ db = IF built = NotBuilt THEN EmptyDb ELSE RoundTripDb(built, clock)
       /\ everBuilt = IF built = NotBuilt THEN {} ELSE {<<"b">>}
       /\ offered = [names |-> {<<"b">>}, methods |-> KnownMethods,
                     atts |-> AttLists, readings |-> Readings, built |-> built]

(* ------------- the names of two cells, as a function of the clock ------ *)
(* gettimeofday's results: tv_sec >= 0 and 0 <= tv_usec <= 999999 *)
ClockReadings == (0..MaxSec) \X (0..MaxUsec)

(* a build of "a" that has read the clock for two cells *)
InitNames ==
  /\ users = {}
  /\ db = EmptyDb
  /\ clock \in ClockReadings
  /\ \E t \in ClockReadings :
       sess = [s \in Sessions |->
                 [IdleSess EXCEPT !.kind = "create", !.name = <<"a">>,
                                  !.method = "itemcoscf", !.pc = "c_time",
                                  !.gen = <<t, clock>>]]
  /\ nreq = 0
  /\ nfault = 0
  /\ everBuilt = {}
  /\ offered = [names |-> ScenarioNames, methods |-> ItemMethods,
                atts |-> {<<>>}, readings |-> ClockReadings]

(* sprintf(recmodelname, "%sModel%ld%ld", ..) and "%sView%ld%ld" for each  *)
(* of the readings                                                         *)
FormatNames(s) ==
  /\ sess[s].pc = "c_time"
  /\ Set(s, [sess[s] EXCEPT
               !.pc = "named",
               !.cells = [i \in 1..Len(sess[s].gen) |->
                            [modelname1 |-> RecModelName(sess[s].name, sess[s].gen[i]),
                             modelname2 |-> NULL,
                             viewname |-> RecViewName(sess[s].name, sess[s].gen[i])]]])
  /\ UNCHANGED <<db, clock, users, nreq, nfault, everBuilt, offered>>

NextNames == \E s \in Sessions : FormatNames(s)

(* two client sessions, each its own backend process running the handler  *)
(* on the one shared database; a backend runs one statement at a time      *)
TwoSessions == {1, 2}

(* build requests from two sessions *)
InitTwoBuilds ==
  /\ users \in UserTables
  /\ db = EmptyDb
  /\ clock = <<1, 3>>
  /\ sess = [s \in TwoSessions |-> IdleSess]
  /\ nreq = 0
  /\ nfault = 0
  /\ everBuilt = {}
  /\ offered = [names |-> RecNames, methods |-> {"svd"},
                atts |-> ScenarioAttLists, readings |-> Readings]

Next == \E s \in Sessions : CreateStep(s) \/ DropStep(s)

(* the statements of the two sessions' builds, interleaved in any order *)
NextTwoBuilds == \E s \in TwoSessions : CreateStep(s)

Spec == Init /\ [][Next]_vars

SpecQuoted == InitQuoted /\ [][Next]_vars

SpecScenario == InitScenario /\ [][Next]_vars

SpecUnknown == InitUnknown /\ [][Next]_vars

SpecPrebuilt == InitPrebuilt /\ [][Next]_vars

SpecRoundTrip == InitRoundTrip /\ [][Next]_vars

SpecNames == InitNames /\ [][NextNames]_vars

(* a backend runs the handler of an accepted request statement by          *)
(* statement until it returns or raises an error: the steps of a request   *)
(* that has begun                                                          *)
RunStep(s) ==
  \/ CreateCatalogue(s) \/ InsertCatalogueRow(s)
  \/ CheckProperties(s) \/ CreateProperties(s) \/ InsertProperties(s)
  \/ CreateIndexTable(s) \/ DispatchMethod(s) \/ OpenPartition(s)
  \/ FetchCell(s) \/ ReadClock(s) \/ CreateModel(s) \/ CreateItemModel(s)
  \/ CreateView(s) \/ InsertDummy(s) \/ PopulateModel(s)
  \/ InsertIndexRow(s) \/ CleanupPartition(s)
  \/ ResolveRecommender(s) \/ OpenIndex(s) \/ ScanIndex(s)
  \/ DropModel1(s) \/ DropModel2(s) \/ DropView(s)
  \/ DropIndex(s) \/ DeleteCatalogueRow(s)

(* the same requests as SpecPrebuilt; a request that has begun is run on *)
SpecTermination ==
  InitPrebuilt /\ [][Next]_vars /\ WF_vars(\E s \in Sessions : RunStep(s))

SpecTwoBuilds == InitTwoBuilds /\ [][NextTwoBuilds]_vars


(* ============================ properties =============================== *)

PropertiesRows(d) ==
  IF relationExists(d, recathonproperties)
  THEN SelectAll(d, recathonproperties) ELSE <<>>

IsPrefix(p, q) == Len(p) <= Len(q) /\ \A i \in 1..Len(p) : p[i] = q[i]

ModelColumns == {"recmodelname", "recusermodelname", "recitemmodelname"}

(* the names sprintf builds for a cell from one clock reading *)
GeneratedModelNames(r, t) ==
  IF r.method = "svd"
  THEN {RecUserModelName(r.name, t), RecItemModelName(r.name, t)}
  ELSE {RecModelName(r.name, t)}

(* no create request for this (case-folded) name was ever accepted *)
NeverBuilt(recname) == \A b \in everBuilt : ToLowerStr(b) # recname

(* C1: after a build that ended successfully having processed K cells, the *)
(* index table holds exactly K rows, the i-th row is the i-th cell's       *)
(* (its context values) and its ratingTotal is the integer the modeling    *)
(* backend returned for that cell.                                         *)
C1_CatalogRoundTrip ==
  \A s \in Sessions :
    (sess[s].kind = "create" /\ sess[s].pc = "cataloged") =>
      /\ relationExists(db, RecIndexName(sess[s].name))
      /\ LET rows == SelectAll(db, RecIndexName(sess[s].name))
             r == sess[s]
         IN /\ Len(rows) = Len(r.iter)
            /\ Len(r.returned) = Len(r.iter)
            /\ \A i \in 1..Len(rows) :
                 /\ rows[i].ratingtotal = r.returned[i]
                 /\ \A j \in 1..Len(r.atts) : rows[i][r.atts[j]] = r.iter[i][j]

C1_Witness ==
  \E s \in Sessions :
    /\ sess[s].kind = "create" /\ sess[s].pc = "cataloged"
    /\ Len(sess[s].iter) = 2
    /\ sess[s].returned[1] # sess[s].returned[2]

(* C2: after a destroy that ended successfully no model table and no view  *)
(* table named in the rows it read from the index table exists, the index  *)
(* table does not exist, and no recommender-list row carries the           *)
(* recommender's index-table name.                                         *)
C2_DestroyCompleteness ==
  \A s \in Sessions :
    (sess[s].kind = "drop" /\ sess[s].pc = "done") =>
      /\ \A i \in 1..Len(sess[s].iter) :
           \A c \in (ModelColumns \cup {"recviewname"}) \cap DOMAIN sess[s].iter[i] :
             ~relationExists(db, sess[s].iter[i][c])
      /\ ~relationExists(db, RecIndexName(sess[s].name))
      /\ \A i \in 1..Len(CatalogueRows(db)) :
           CatalogueRows(db)[i].recommenderindexname # RecIndexName(sess[s].name)

C2_Witness ==
  \E s \in Sessions :
    /\ sess[s].kind = "drop" /\ sess[s].pc = "done"
    /\ sess[s].method = "svd"
    /\ Len(sess[s].iter) = 2

(* C3: for every clock behaviour the model names and the view names        *)
(* generated for the cells of one build are pairwise distinct.             *)
C3_NamesDistinct ==
  \A s \in Sessions :
    sess[s].kind = "create" =>
      \A i, j \in 1..Len(sess[s].gen) :
        i # j =>
          /\ GeneratedModelNames(sess[s], sess[s].gen[i])
               \cap GeneratedModelNames(sess[s], sess[s].gen[j]) = {}
          /\ RecViewName(sess[s].name, sess[s].gen[i])
               # RecViewName(sess[s].name, sess[s].gen[j])

(* A step that changes the database keeps the properties table and its row *)
(* and, inside a build, keeps the recommender-list table and its rows.      *)
InfraPreserved ==
  /\ relationExists(db, recathonproperties)
       => relationExists(db', recathonproperties)
  /\ PropertiesRows(db) # <<>> => PropertiesRows(db') = PropertiesRows(db)
  /\ (\E s \in Sessions : sess[s].kind = "create" /\ sess[s].pc \notin Resting)
       => /\ relationExists(db, recmodelscatalogue)
               => relationExists(db', recmodelscatalogue)
          /\ IsPrefix(CatalogueRows(db), CatalogueRows(db'))

(* C4: builds run one after another keep the global properties row single: *)
(* the table never holds more than the one row (0.5, 0, true), a row once  *)
(* written is neither changed nor joined by another, a build never removes *)
(* or empties the recommender-list table, and with no backend failure a    *)
(* build that ends successfully leaves exactly one properties row.         *)
C4_IdempotentInfra ==
  /\ [](/\ Len(PropertiesRows(db)) <= 1
        /\ \A i \in 1..Len(PropertiesRows(db)) :
             PropertiesRows(db)[i] = MakeRow(PropertiesCols, PropertiesDefaults)
        /\ (nfault = 0 /\ \E s \in Sessions : sess[s].pc = "cataloged")
             => Len(PropertiesRows(db)) = 1)
  /\ [][db' = db \/ InfraPreserved]_vars

C4_Witness ==
  /\ \E s \in Sessions : sess[s].kind = "create" /\ sess[s].pc = "cataloged"
  /\ Len(CatalogueRows(db)) = 2
  /\ \A i \in 1..Len(CatalogueRows(db)) :
       /\ CatalogueRows(db)[i].contextattributes = 0
       /\ relationExists(db, CatalogueRows(db)[i].recommenderindexname)
       /\ Len(SelectAll(db, CatalogueRows(db)[i].recommenderindexname)) = 1
  /\ Len(PropertiesRows(db)) = 1

(* C5: a build with at least one context attribute that ended successfully *)
(* ran its cell loop once for each distinct combination of the attribute   *)
(* values in the user table, each exactly once, whether or not a rating    *)
(* exists for it; a build with no context attribute ran it exactly once.   *)
C5_PartitionCompleteness ==
  \A s \in Sessions :
    (sess[s].kind = "create" /\ sess[s].pc = "cataloged") =>
      LET r == sess[s]
          combos == {[j \in 1..Len(r.atts) |-> u[r.atts[j]]] : u \in users}
      IN IF Len(r.atts) > 0
         THEN /\ SeqRange(r.iter) = combos
              /\ Len(r.iter) = Cardinality(combos)
         ELSE r.iter = <<<<>>>>

C5_Witness ==
  \E s \in Sessions :
    /\ sess[s].kind = "create" /\ sess[s].pc = "cataloged"
    /\ Len(sess[s].atts) > 0
    /\ Len(sess[s].iter) = 2
    /\ Cardinality(users) > 2
    /\ \E i \in 1..2 : sess[s].returned[i] = 0

(* C6 as stated: destroying a name that was never built ends in the fatal  *)
(* error "recommender does not exist" in every catalog state and changes   *)
(* nothing.                                                                *)
C6_NeverBuiltDoesNotExist ==
  \A s \in Sessions :
    (sess[s].kind = "drop" /\ sess[s].pc \in {"failed", "done"}
       /\ NeverBuilt(sess[s].name))
      => (sess[s].pc = "failed" /\ sess[s].err = "recommender does not exist")

(* C6 amended: destroying a name that was never built ends in a fatal      *)
(* error and changes nothing; the error is "recommender does not exist"    *)
(* when the recommender-list table exists and "no recommenders have been   *)
(* created" when it does not.                                              *)
C6_NeverBuiltFails ==
  /\ [](\A s \in Sessions :
          (sess[s].kind = "drop" /\ sess[s].pc \in {"failed", "done"}
             /\ NeverBuilt(sess[s].name))
            => /\ sess[s].pc = "failed"
               /\ sess[s].err = IF relationExists(db, recmodelscatalogue)
                                THEN "recommender does not exist"
                                ELSE "no recommenders have been created")
  /\ [][\A s \in Sessions :
          (sess[s].kind = "drop" /\ NeverBuilt(sess[s].name)) => db' = db]_vars

C6_Witness ==
  \E s \in Sessions :
    /\ sess[s].kind = "drop" /\ sess[s].pc = "failed"
    /\ NeverBuilt(sess[s].name)
    /\ sess[s].err = "recommender does not exist"
    /\ Len(CatalogueRows(db)) > 0

(* C7: while the recommender-list table does not exist, a destroy request  *)
(* for any name fails at its first check with "no recommenders have been   *)
(* created" and leaves every table and row as it was.                      *)
C7_NoRecommenders ==
  [][\A s \in Sessions :
       (/\ sess[s].pc = "d_catalogue"
        /\ ~relationExists(db, recmodelscatalogue)
        /\ sess'[s] # sess[s])
         => /\ sess'[s].pc = "failed"
            /\ sess'[s].err = "no recommenders have been created"
            /\ db' = db]_vars

C7_Witness ==
  \E s \in Sessions :
    /\ sess[s].kind = "drop" /\ sess[s].pc = "failed"
    /\ sess[s].err = "no recommenders have been created"
    /\ ~relationExists(db, recmodelscatalogue)

(* C8: a destroy whose scan of the index table returns no row raises the   *)
(* warning and goes on to drop the index table; after the warning only a   *)
(* backend failure stops it, and when it ends successfully the index table *)
(* is gone and the recommender-list row is deleted.                        *)
C8_ZeroCellDestroy ==
  /\ [][\A s \in Sessions :
          (/\ sess[s].pc = "d_scan"
           /\ sess[s].cursor = <<>> /\ sess[s].cells = <<>>
           /\ sess'[s] # sess[s])
            => (sess'[s].pc = "d_index" /\ sess'[s].warned)]_vars
  /\ [](\A s \in Sessions :
          (sess[s].kind = "drop" /\ sess[s].warned) =>
            /\ sess[s].pc \in {"d_index", "d_delete", "done", "failed"}
            /\ sess[s].pc = "failed" => sess[s].err = "backend"
            /\ sess[s].pc = "done" =>
                 /\ ~relationExists(db, RecIndexName(sess[s].name))
                 /\ ~recommenderExists(db, sess[s].name))

C8_Witness ==
  \E s \in Sessions :
    /\ sess[s].kind = "drop" /\ sess[s].pc = "done"
    /\ sess[s].warned /\ sess[s].iter = <<>>

(* C9: a build with at least one context attribute whose partition query   *)
(* returns no tuple ends successfully, with a recommender-list row and an  *)
(* existing empty index table, and no step of it raises an error or        *)
(* touches an unset value.                                                 *)
C9_ZeroCellBuild ==
  \A s \in Sessions :
    (sess[s].kind = "create" /\ Len(sess[s].atts) > 0 /\ users = {}) =>
      /\ ~sess[s].unset
      /\ sess[s].pc = "failed" => sess[s].err = "backend"
      /\ sess[s].pc = "cataloged" =>
           /\ recommenderExists(db, sess[s].name)
           /\ relationExists(db, RecIndexName(sess[s].name))
           /\ SelectAll(db, RecIndexName(sess[s].name)) = <<>>

(* C10: a destroy of a recommender that a failed build left partially      *)
(* built does not abort: once the recommender is resolved, only a backend  *)
(* failure stops it before the index table is dropped and the              *)
(* recommender-list row removed.                                           *)
C10_DestroyTolerant ==
  \A s \in Sessions :
    (sess[s].kind = "drop" /\ sess[s].pc = "failed"
       /\ recommenderExists(db, sess[s].name))
      => sess[s].err = "backend"


C12_NoRollback ==
  /\ [](\A s \in Sessions :
          /\ (sess[s].err # "none") <=> (sess[s].pc \in {"failed", "rejected"})
          /\ (sess[s].kind = "create" /\ sess[s].pc \in Resting)
               => sess[s].pc \in {"cataloged", "failed", "rejected"})
  /\ [][\A s \in Sessions :
          /\ (sess[s].pc # "failed" /\ sess'[s].pc = "failed") => db' = db
          /\ sess[s].pc \in {"failed", "cataloged", "done"}
               => (sess'[s] = sess[s] \/ nreq' = nreq + 1)]_vars

C12_Witness ==
  \E s \in Sessions :
    /\ sess[s].kind = "create" /\ sess[s].pc = "failed"
    /\ sess[s].err \in {"backend", "statement"}
    /\ recommenderExists(db, sess[s].name)
    /\ relationExists(db, RecIndexName(sess[s].name))
    /\ Len(SelectAll(db, RecIndexName(sess[s].name))) = 1
    /\ Len(sess[s].gen) = 2
    /\ relationExists(db, ModelName1(sess[s]))


(* C13: destroy is case-insensitive in the recommender name: a destroy     *)
(* request is not refused with "does not exist" while the recommender-list *)
(* table holds a row whose index-table name is, up to letter case, the     *)
(* requested name followed by "Index".                                     *)
C13_DestroyCaseInsensitive ==
  \A s \in Sessions :
    (sess[s].kind = "drop" /\ sess[s].err = "recommender does not exist") =>
      \A i \in 1..Len(CatalogueRows(db)) :
        ToLowerStr(CatalogueRows(db)[i].recommenderindexname)
          # ToLowerStr(RecIndexName(sess[s].name))


(* the row INSERT ... VALUES(-1,-1,-1) leaves in a view table *)
Placeholder == MakeRow(ViewCols, DummyTuple)

(* C14: after a successful build every row of the recommender's index      *)
(* table names a view table that exists and holds exactly the placeholder  *)
(* row (-1,-1,-1); and in every state a view table named by an index row,  *)
(* while it exists, holds exactly that row, so it is never empty.          *)
C14_ViewPlaceholder ==
  /\ LET cat == CatalogueRows(db)
     IN \A j \in 1..Len(cat) :
          LET index == Ident(cat[j].recommenderindexname)
          IN index \in DOMAIN db =>
               \A k \in 1..Len(db[index].rows) :
                 LET view == Ident(db[index].rows[k].recviewname)
                 IN view \in DOMAIN db => db[view].rows = <<Placeholder>>
  /\ \A s \in Sessions :
       (sess[s].kind = "create" /\ sess[s].pc = "cataloged") =>
         \A row \in SeqRange(SelectAll(db, RecIndexName(sess[s].name))) :
           /\ relationExists(db, row.recviewname)
           /\ SelectAll(db, row.recviewname) = <<Placeholder>>

C14_Witness ==
  \E s \in Sessions :
    /\ sess[s].kind = "create" /\ sess[s].pc = "cataloged"
    /\ sess[s].method \in UserMethods
    /\ Len(SelectAll(db, RecIndexName(sess[s].name))) = 2
    /\ \A row \in SeqRange(SelectAll(db, RecIndexName(sess[s].name))) :
         SelectAll(db, row.recviewname) = <<Placeholder>>


(* C15: a successful build with the one context attribute att, of which    *)
(* the user table holds n distinct values, leaves exactly n index rows,    *)
(* the rows carry n pairwise distinct values of att, and no two rows share *)
(* a model name or a view name.                                            *)
C15_ScenarioRows ==
  \A s \in Sessions :
    (sess[s].kind = "create" /\ sess[s].pc = "cataloged"
       /\ Len(sess[s].atts) = 1) =>
      LET att == sess[s].atts[1]
          n == Cardinality({r[att] : r \in users})
          rows == SelectAll(db, RecIndexName(sess[s].name))
      IN /\ Len(rows) = n
         /\ Cardinality({rows[i][att] : i \in 1..Len(rows)}) = n
         /\ \A i, j \in 1..Len(rows) :
              i # j =>
                /\ Ident(rows[i].recviewname) # Ident(rows[j].recviewname)
                /\ \A c, e \in ModelColumns \cap DOMAIN rows[i] :
                     Ident(rows[i][c]) # Ident(rows[j][e])

C15_Witness ==
  \E s \in Sessions :
    /\ sess[s].kind = "create" /\ sess[s].pc = "cataloged"
    /\ sess[s].atts = <<"region">>
    /\ Cardinality({r.region : r \in users}) = 3
    /\ Len(SelectAll(db, RecIndexName(sess[s].name))) = 3


(* the positions of a build inside the partition loop, and those reached   *)
(* once the catalog tables of the recommender are in place                 *)
CellSteps ==
  {"c_fetch", "c_time", "c_model", "c_model2", "c_view", "c_dummy",
   "c_populate", "c_row", "c_cleanup"}
AfterInfra == CellSteps \cup {"c_dispatch", "c_open", "cataloged"}

(* C16: build step order.  No step changes the database before the request *)
(* has passed validation; once the build is past the catalog steps (so     *)
(* before the partition query is opened and during all cells) the          *)
(* recommender-list table exists, holds the recommender's row, and the     *)
(* index table exists; the statistics of an item or user CF build have     *)
(* been computed once when the partition is opened and in every cell, and  *)
(* never for SVD; a build that has named a cell has its index table;       *)
(* and a cataloged build has fetched all tuples and inserted one index row *)
(* per cell.                                                               *)
C16_BuildOrder ==
  /\ [](\A s \in Sessions :
          sess[s].kind = "create" =>
            /\ sess[s].pc \in AfterInfra =>
                 /\ relationExists(db, recmodelscatalogue)
                 /\ recommenderExists(db, sess[s].name)
                 /\ relationExists(db, RecIndexName(sess[s].name))
            /\ sess[s].pc \in AfterInfra \ {"c_dispatch"} =>
                 sess[s].stats =
                   (IF sess[s].method \in ItemMethods \cup UserMethods THEN 1 ELSE 0)
            /\ sess[s].pc \in {"c_catalogue", "c_insert", "c_propcheck",
                                "c_propcreate", "c_propinsert", "c_index",
                                "c_dispatch", "c_open", "rejected"} =>
                 /\ sess[s].gen = <<>> /\ sess[s].iter = <<>>
                 /\ sess[s].pc # "c_open" => sess[s].stats = 0
            /\ sess[s].gen # <<>> => relationExists(db, RecIndexName(sess[s].name))
            /\ sess[s].pc = "cataloged" =>
                 /\ sess[s].cursor = <<>>
                 /\ Len(SelectAll(db, RecIndexName(sess[s].name))) = Len(sess[s].iter)
                 /\ Len(sess[s].gen) = Len(sess[s].iter))
  /\ [][db' = db \/ \A s \in Sessions : sess[s].pc \notin Resting]_vars

C16_Witness ==
  \E s \in Sessions :
    /\ sess[s].kind = "create" /\ sess[s].pc = "c_view"
    /\ sess[s].method \in ItemMethods
    /\ sess[s].stats = 1
    /\ Len(sess[s].gen) = 2
    /\ Len(SelectAll(db, RecIndexName(sess[s].name))) = 1


(* the model-table names an index row carries *)
RowModelNames(row) == {row[c] : c \in ModelColumns \cap DOMAIN row}

(* C17: per-cell step order.  Inside a cell the model table(s) exist when  *)
(* the view is created, the view exists, empty, when the placeholder is    *)
(* inserted, the placeholder is in when the backend is called, the backend *)
(* has returned when the index row is written, and the row is written      *)
(* last.  In every state of a build that passed validation, failed ones    *)
(* included, the i-th row of its index table carries exactly the model and *)
(* view names generated for its i-th cell, and those tables exist.         *)
C17_CellOrder ==
  \A s \in Sessions :
    (sess[s].kind = "create" /\ sess[s].pc # "rejected") =>
      LET r == sess[s]
          k == Len(r.gen)
          rows == IF relationExists(db, RecIndexName(r.name)) /\ k > 0
                  THEN SelectAll(db, RecIndexName(r.name)) ELSE <<>>
          cur == IF k > 0 THEN r.gen[k] ELSE <<0, 0>>
      IN /\ Len(rows) <= k
         /\ \A i \in 1..Len(rows) :
              /\ RowModelNames(rows[i]) = GeneratedModelNames(r, r.gen[i])
              /\ rows[i].recviewname = RecViewName(r.name, r.gen[i])
              /\ \A n \in RowModelNames(rows[i]) : relationExists(db, n)
              /\ relationExists(db, rows[i].recviewname)
         /\ r.pc \in {"c_model", "c_model2", "c_view", "c_dummy", "c_populate", "c_row"}
              => Len(rows) = k - 1
         /\ r.pc \in {"c_view", "c_dummy", "c_populate", "c_row"}
              => \A n \in GeneratedModelNames(r, cur) : relationExists(db, n)
         /\ r.pc \in {"c_dummy", "c_populate", "c_row"}
              => relationExists(db, RecViewName(r.name, cur))
         /\ r.pc = "c_dummy" => SelectAll(db, RecViewName(r.name, cur)) = <<>>
         /\ r.pc \in {"c_populate", "c_row"}
              => SelectAll(db, RecViewName(r.name, cur)) = <<Placeholder>>
         /\ r.pc \in {"c_model", "c_model2", "c_view", "c_dummy", "c_populate"}
              => Len(r.returned) = k - 1
         /\ r.pc = "c_row" => Len(r.returned) = k

C17_Witness ==
  \E s \in Sessions :
    /\ sess[s].kind = "create" /\ sess[s].pc = "failed"
    /\ sess[s].method = "svd"
    /\ Len(sess[s].gen) = 2
    /\ relationExists(db, RecIndexName(sess[s].name))
    /\ Len(SelectAll(db, RecIndexName(sess[s].name))) = 1
    /\ relationExists(db, RecViewName(sess[s].name, sess[s].gen[2]))


(* the table identifiers a build of recname can give to its cells *)
CellTableNames(recname) ==
  UNION {{Ident(RecModelName(recname, t)), Ident(RecUserModelName(recname, t)),
          Ident(RecItemModelName(recname, t)), Ident(RecViewName(recname, t))} :
           t \in offered.readings}

(* C18: after a destroy of a recommender that ended successfully no model  *)
(* table and no view table created by a build of that recommender exists,  *)
(* whether that build succeeded or failed at some step.                    *)
C18_DestroyReachesAll ==
  \A s \in Sessions :
    (sess[s].kind = "drop" /\ sess[s].pc = "done") =>
      CellTableNames(sess[s].name) \cap DOMAIN db = {}


(* C19: a drop that fails inside the loop over the cells does not end the  *)
(* destroy: no destroy stops as failed while cells it has enumerated are   *)
(* still waiting for their drops.                                          *)
C19_IndependentDrops ==
  \A s \in Sessions :
    (sess[s].kind = "drop" /\ sess[s].pc = "failed") => sess[s].cells = <<>>


(* the tables named by the index rows a destroy has read *)
EnumeratedTables(r) ==
  UNION {RowModelNames(r.iter[i]) \cup {r.iter[i].recviewname} : i \in 1..Len(r.iter)}

(* C20: destroy step order.  While a destroy drops cell tables the scan is *)
(* over and has materialized every row of the index table, which is still  *)
(* there with the recommender-list row; when it drops the index table all  *)
(* cells are done and none of the enumerated tables is left; when it       *)
(* deletes the recommender-list row the index table is gone; at the end    *)
(* both are gone.  So in no state of a destroy, failed ones included, does *)
(* the index table exist without the recommender-list row.                 *)
C20_DestroyOrder ==
  \A s \in Sessions :
    sess[s].kind = "drop" =>
      LET r == sess[s]
          index == relationExists(db, r.name \o S_index)
          listed == recommenderExists(db, r.name)
      IN /\ r.pc \in {"d_scan", "d_model1", "d_model2", "d_view", "d_index"}
              => index /\ listed
         /\ r.pc = "d_scan" =>
              /\ Len(r.cells) = Len(r.iter)
              /\ r.iter \o r.cursor = SelectAll(db, r.name \o S_index)
         /\ r.pc \in {"d_model1", "d_model2", "d_view", "d_index"} =>
              /\ r.cursor = <<>>
              /\ r.iter = SelectAll(db, r.name \o S_index)
         /\ r.pc \in {"d_model1", "d_model2", "d_view"} => r.cells # <<>>
         /\ r.pc \in {"d_index", "d_delete", "done"} =>
              /\ r.cells = <<>>
              /\ \A n \in EnumeratedTables(r) : ~relationExists(db, n)
         /\ r.pc = "d_delete" => ~index /\ listed
         /\ r.pc = "done" => ~index /\ ~listed
         /\ index => listed

C20_Witness ==
  \E s \in Sessions :
    /\ sess[s].kind = "drop" /\ sess[s].pc = "d_delete"
    /\ Len(sess[s].iter) = 2
    /\ ~relationExists(db, sess[s].name \o S_index)
    /\ recommenderExists(db, sess[s].name)


(* C21: the statistics of an item or user CF build are precomputed exactly *)
(* once, before the partition is opened, over the whole user and rating    *)
(* relation without any context filter, and the backend call of every cell *)
(* receives that same result; an SVD build precomputes none and passes     *)
(* none.  This holds for every number of cells, zero included.             *)
C21_StatsOncePerRecommender ==
  \A s \in Sessions :
    (sess[s].kind = "create" /\ sess[s].pc \in AfterInfra \ {"c_dispatch"}) =>
      LET r == sess[s]
      IN /\ Len(r.passed) = Len(r.returned)
         /\ IF r.method = "svd"
            THEN /\ r.stats = 0 /\ r.statsval = NoStats
                 /\ \A i \in 1..Len(r.passed) : r.passed[i] = NoStats
            ELSE /\ r.stats = 1
                 /\ r.statsval = PrecomputeStats(users)
                 /\ \A i \in 1..Len(r.passed) : r.passed[i] = r.statsval

C21_Witness ==
  \E s \in Sessions :
    /\ sess[s].kind = "create" /\ sess[s].pc = "cataloged"
    /\ sess[s].method \in ItemMethods
    /\ Len(sess[s].passed) = 2
    /\ sess[s].returned[1] # sess[s].returned[2]
    /\ sess[s].passed[1] = sess[s].passed[2]


(* the model-name columns and the model-table schemas of a family *)
FamilyColumns(method) ==
  IF method = "svd" THEN {"recusermodelname", "recitemmodelname"}
  ELSE {"recmodelname"}

FamilySchema(method, col) ==
  IF col = "recusermodelname" THEN SvdUserModelCols
  ELSE IF col = "recitemmodelname" THEN SvdItemModelCols
  ELSE IF method \in ItemMethods THEN ItemModelCols ELSE UserModelCols

(* C22: the family determines the artifact set.  The index table of every  *)
(* listed recommender has two model-name columns when its method is SVD    *)
(* and one otherwise; every index row names that many model tables and one *)
(* view table; a named table that exists has the schema of the family's    *)
(* strategy (user and item factors for SVD, item pairs or user pairs for   *)
(* CF) and the view has the view schema; and after a successful build all  *)
(* of them exist.                                                          *)
C22_FamilyArtifacts ==
  /\ LET cat == CatalogueRows(db)
     IN \A j \in 1..Len(cat) :
          LET index == Ident(cat[j].recommenderindexname)
              m == cat[j].method
          IN index \in DOMAIN db =>
               /\ SeqRange(db[index].cols) \cap ModelColumns = FamilyColumns(m)
               /\ \A k \in 1..Len(db[index].rows) :
                    LET row == db[index].rows[k]
                        view == Ident(row.recviewname)
                    IN /\ Cardinality(RowModelNames(row)) =
                            (IF m = "svd" THEN 2 ELSE 1)
                       /\ view \in DOMAIN db => db[view].cols = ViewCols
                       /\ \A c \in FamilyColumns(m) :
                            LET model == Ident(row[c])
                            IN /\ model # view
                               /\ model \in DOMAIN db =>
                                    db[model].cols = FamilySchema(m, c)
  /\ \A s \in Sessions :
       (sess[s].kind = "create" /\ sess[s].pc = "cataloged") =>
         /\ getRecInfo(db, RecIndexName(sess[s].name)) = sess[s].method
         /\ \A row \in SeqRange(SelectAll(db, RecIndexName(sess[s].name))) :
              /\ relationExists(db, row.recviewname)
              /\ \A c \in FamilyColumns(sess[s].method) :
                   relationExists(db, row[c])

C22_Witness ==
  \E s \in Sessions :
    /\ sess[s].kind = "create" /\ sess[s].pc = "cataloged"
    /\ sess[s].method = "svd"
    /\ Len(SelectAll(db, RecIndexName(sess[s].name))) = 2
    /\ \A row \in SeqRange(SelectAll(db, RecIndexName(sess[s].name))) :
         /\ relationExists(db, row.recusermodelname)
         /\ relationExists(db, row.recitemmodelname)
         /\ row.recusermodelname # row.recitemmodelname


(* the cell a destroy is to make of an index row written by a build of the *)
(* family the row's columns show                                           *)
ExpectedCell(row) ==
  IF "recusermodelname" \in DOMAIN row
  THEN [modelname1 |-> row.recusermodelname,
        modelname2 |-> row.recitemmodelname,
        viewname |-> row.recviewname]
  ELSE [modelname1 |-> row.recmodelname,
        modelname2 |-> NULL,
        viewname |-> row.recviewname]

(* C23: a destroy that has resolved its recommender holds the method the   *)
(* build stored, and that method is SVD exactly when the index table has   *)
(* the two model-name columns; for every index row it reads it keeps two   *)
(* model names and the view name when the recommender was built with SVD,  *)
(* one model name and the view name otherwise, none of them missing; and   *)
(* once its loop is over, every model table and view table so named is     *)
(* dropped.                                                                *)
C23_DestroyByFamily ==
  \A s \in Sessions :
    (sess[s].kind = "drop" /\ sess[s].pc \notin {"d_catalogue", "failed"}) =>
      LET r == sess[s]
          done == Len(r.iter) - Len(r.cells)
      IN /\ r.method \in KnownMethods
         /\ r.pc \in {"d_open", "d_scan", "d_model1", "d_model2", "d_view", "d_index"}
              => /\ r.method = getRecInfo(db, RecIndexName(r.name))
                 /\ relationExists(db, RecIndexName(r.name)) =>
                      SeqRange(db[Ident(RecIndexName(r.name))].cols) \cap ModelColumns
                        = FamilyColumns(r.method)
         /\ done >= 0
         /\ \A j \in 1..Len(r.cells) :
              /\ r.cells[j] = ExpectedCell(r.iter[done + j])
              /\ r.cells[j].modelname1 # NULL /\ r.cells[j].viewname # NULL
              /\ (r.cells[j].modelname2 # NULL) <=> (r.method = "svd")
         /\ \A i \in 1..done :
              /\ ~relationExists(db, ExpectedCell(r.iter[i]).modelname1)
              /\ ~relationExists(db, ExpectedCell(r.iter[i]).modelname2)
              /\ ~relationExists(db, ExpectedCell(r.iter[i]).viewname)

C23_Witness ==
  \E s \in Sessions :
    /\ sess[s].kind = "drop" /\ sess[s].pc = "d_view"
    /\ sess[s].method = "svd"
    /\ Len(sess[s].iter) = 2 /\ Len(sess[s].cells) = 1
    /\ sess[s].cells[1].modelname2 = sess[s].iter[2].recitemmodelname
    /\ ~relationExists(db, sess[s].cells[1].modelname2)
    /\ relationExists(db, sess[s].cells[1].viewname)
    /\ \E i \in 1..Len(CatalogueRows(db)) : CatalogueRows(db)[i].method # "svd"


(* C24: the context columns of a build's index table are the attributes of *)
(* the request, in the order of the request, after all other columns; and  *)
(* in the i-th index row the column of the j-th attribute holds the value  *)
(* the i-th tuple of the partition query has for that attribute, so the    *)
(* values of a row are, column by column, those of one user-table row.     *)
C24_AttributeOrder ==
  \A s \in Sessions :
    (sess[s].kind = "create" /\ sess[s].pc \in AfterInfra) =>
      LET r == sess[s]
          t == db[Ident(RecIndexName(r.name))]
          n == Len(r.atts)
          base == Len(t.cols) - n
      IN /\ base = Len(IndexCols(r.method, <<>>))
         /\ \A j \in 1..n : t.cols[base + j] = r.atts[j]
         /\ \A i \in 1..Len(t.rows) :
              /\ \A j \in 1..n : t.rows[i][t.cols[base + j]] = r.iter[i][j]
              /\ n > 0 => \E u \in users :
                            \A j \in 1..n : t.rows[i][r.atts[j]] = u[r.atts[j]]

C24_Witness ==
  \E s \in Sessions :
    /\ sess[s].kind = "create" /\ sess[s].pc = "cataloged"
    /\ sess[s].atts = <<"region", "tier">>
    /\ LET rows == SelectAll(db, RecIndexName(sess[s].name))
       IN /\ Len(rows) = 2
          /\ rows[1].region # rows[2].region
          /\ rows[1].tier # rows[2].tier
          /\ rows[1].region # rows[1].tier


(* C25: in every state every row of the index table of every listed        *)
(* recommender, whatever its family and with or without context            *)
(* attributes, has update counter 0, query counter 0, update rate 0.0 and  *)
(* query rate 0.0.                                                         *)
C25_InitialCounters ==
  LET cat == CatalogueRows(db)
  IN \A j \in 1..Len(cat) :
       LET index == Ident(cat[j].recommenderindexname)
       IN index \in DOMAIN db =>
            \A k \in 1..Len(db[index].rows) :
              LET row == db[index].rows[k]
              IN /\ row.updatecounter = 0 /\ row.querycounter = 0
                 /\ row.updaterate = "0.0" /\ row.queryrate = "0.0"

C25_Witness ==
  \E s \in Sessions :
    /\ sess[s].kind = "create" /\ sess[s].pc = "cataloged"
    /\ sess[s].method = "svd" /\ Len(sess[s].atts) > 0
    /\ relationExists(db, RecIndexName(<<"b">>))
    /\ LET rows == SelectAll(db, RecIndexName(sess[s].name))
           other == SelectAll(db, RecIndexName(<<"b">>))
       IN /\ Len(rows) = 2 /\ Len(other) = 1
          /\ rows[1].ratingtotal > 0
          /\ rows[1].updatecounter = 0 /\ other[1].querycounter = 0


(* the rows of the recommender list that belong to other recommenders *)
OtherRows(d, recname) ==
  LET other(row) == row.recommenderindexname # RecIndexName(recname)
  IN SelectSeq(CatalogueRows(d), other)

(* a step of a destroy of recname from database d to database e leaves the *)
(* other recommenders, the properties table and the recommender list in    *)
(* place                                                                   *)
OthersPreserved(d, e, recname) ==
  /\ OtherRows(e, recname) = OtherRows(d, recname)
  /\ relationExists(d, recmodelscatalogue) => relationExists(e, recmodelscatalogue)
  /\ relationExists(d, recathonproperties) =>
       /\ relationExists(e, recathonproperties)
       /\ PropertiesRows(e) = PropertiesRows(d)
  /\ \A j \in 1..Len(OtherRows(d, recname)) :
       LET index == Ident(OtherRows(d, recname)[j].recommenderindexname)
       IN index \in DOMAIN d =>
            /\ index \in DOMAIN e /\ e[index] = d[index]
            /\ \A k \in 1..Len(d[index].rows) :
                 \A n \in RowModelNames(d[index].rows[k])
                            \cup {d[index].rows[k].recviewname} :
                   Ident(n) \in DOMAIN d =>
                     (Ident(n) \in DOMAIN e /\ e[Ident(n)] = d[Ident(n)])

(* C26: every step of a destroy of a recommender leaves unchanged the      *)
(* recommender-list rows of all other recommenders, their index tables and *)
(* the model and view tables their index rows name, and leaves the         *)
(* properties table with its row and the recommender-list table in place.  *)
C26_DestroyFrame ==
  [][db' = db \/ \A s \in Sessions :
                   sess[s].kind = "drop" => OthersPreserved(db, db', sess[s].name)]_vars

C26_Witness ==
  \E s \in Sessions :
    /\ sess[s].kind = "drop" /\ sess[s].pc = "done"
    /\ Len(sess[s].iter) > 0
    /\ Len(OtherRows(db, sess[s].name)) = 1
    /\ LET index == OtherRows(db, sess[s].name)[1].recommenderindexname
       IN /\ relationExists(db, index)
          /\ Len(SelectAll(db, index)) > 0
          /\ \A k \in 1..Len(SelectAll(db, index)) :
               /\ relationExists(db, SelectAll(db, index)[k].recviewname)
               /\ \A n \in RowModelNames(SelectAll(db, index)[k]) :
                    relationExists(db, n)
    /\ Len(PropertiesRows(db)) = 1


(* the cells of the catalog: the pairs of a recommender-list row and a row *)
(* of its index table, and the table identifiers such a row names          *)
CatalogCells(d) ==
  LET cat == CatalogueRows(d)
      len(j) == IF relationExists(d, cat[j].recommenderindexname)
                THEN Len(SelectAll(d, cat[j].recommenderindexname)) ELSE 0
  IN UNION {{<<j, k>> : k \in 1..len(j)} : j \in 1..Len(cat)}

CellNamed(d, c) ==
  LET row == SelectAll(d, CatalogueRows(d)[c[1]].recommenderindexname)[c[2]]
  IN {Ident(n) : n \in RowModelNames(row) \cup {row.recviewname}}

(* the table a build is about to create *)
CreateTarget(r) ==
  IF r.pc = "c_model" THEN ModelName1(r)
  ELSE IF r.pc = "c_model2" THEN RecItemModelName(r.name, r.ts)
  ELSE RecViewName(r.name, r.ts)

(* C27: in every state no table is named by two different index rows, of   *)
(* one recommender or of two; and a build that is about to create a model  *)
(* or view table whose name is taken fails at that statement and changes   *)
(* nothing, so that it never writes an index row for a table that another  *)
(* cell has.                                                               *)
C27_CatalogNamesUnique ==
  /\ [](LET cells == CatalogCells(db)
            named == [c \in cells |-> CellNamed(db, c)]
        IN \A c1, c2 \in cells : c1 # c2 => named[c1] \cap named[c2] = {})
  /\ [][\A s \in Sessions :
          (/\ sess[s].kind = "create"
           /\ sess[s].pc \in {"c_model", "c_model2", "c_view"}
           /\ relationExists(db, CreateTarget(sess[s]))
           /\ sess'[s] # sess[s])
            => (sess'[s].pc = "failed" /\ db' = db)]_vars

C27_Witness ==
  \E s \in Sessions :
    /\ sess[s].kind = "create" /\ sess[s].pc = "failed"
    /\ sess[s].err = "statement"
    /\ Len(sess[s].gen) = 2
    /\ sess[s].gen[1] # sess[s].gen[2]
    /\ Suffix(sess[s].gen[1]) = Suffix(sess[s].gen[2])
    /\ Len(SelectAll(db, RecIndexName(sess[s].name))) = 1
    /\ Cardinality(CatalogCells(db)) = 2


(* the table identifiers generated for the i-th cell of a build *)
CellTables(r, i) ==
  {Ident(n) : n \in GeneratedModelNames(r, r.gen[i]) \cup {RecViewName(r.name, r.gen[i])}}

(* the table identifiers the rows of the build's index table name *)
IndexedTables(r) ==
  IF relationExists(db, RecIndexName(r.name))
  THEN UNION {{Ident(n) : n \in RowModelNames(row) \cup {row.recviewname}} :
                row \in SeqRange(SelectAll(db, RecIndexName(r.name)))}
  ELSE {}

(* cell i is partially built: one of its tables exists and no index row    *)
(* names it                                                                *)
PartiallyBuilt(r, i) == (CellTables(r, i) \cap DOMAIN db) \ IndexedTables(r) # {}

(* C28: the cells of a build are built one after another in the order in   *)
(* which the partition query returns them: the i-th cell named is the i-th *)
(* tuple fetched, the index rows are those of the first cells in that      *)
(* order, a cell is named only when the rows of all cells before it are    *)
(* written, and in every state, of a failed build too, at most one cell is *)
(* partially built, and it is the last one named.                          *)
C28_CellsSequential ==
  \A s \in Sessions :
    (sess[s].kind = "create" /\ sess[s].pc # "rejected") =>
      LET r == sess[s]
          k == Len(r.gen)
          rows == IF relationExists(db, RecIndexName(r.name))
                  THEN SelectAll(db, RecIndexName(r.name)) ELSE <<>>
      IN /\ Len(r.iter) = IF r.pc = "c_time" THEN k + 1 ELSE k
         /\ Len(rows) \in {k - 1, k}
         /\ \A i \in 1..Len(rows) :
              /\ rows[i].recviewname = RecViewName(r.name, r.gen[i])
              /\ \A j \in 1..Len(r.atts) : rows[i][r.atts[j]] = r.iter[i][j]
         /\ r.pc \in {"c_fetch", "c_time", "c_cleanup", "cataloged"} => Len(rows) = k
         /\ \A i \in 1..k : PartiallyBuilt(r, i) => (i = k /\ Len(rows) = k - 1)

C28_Witness ==
  \E s \in Sessions :
    /\ sess[s].kind = "create" /\ sess[s].pc = "c_view"
    /\ Len(sess[s].gen) = 2
    /\ Len(SelectAll(db, RecIndexName(sess[s].name))) = 1
    /\ PartiallyBuilt(sess[s], 2)
    /\ ~PartiallyBuilt(sess[s], 1)


(* C29: whenever the requests so far have all ended, successfully or by a  *)
(* fatal error, the recommender list has at most one row per recommender   *)
(* name, and it has a row for a recommender exactly when that              *)
(* recommender's index table exists.                                       *)
C29_ListConsistent ==
  (\A s \in Sessions : sess[s].pc \in Resting) =>
    LET cat == CatalogueRows(db)
    IN /\ \A i, j \in 1..Len(cat) :
            i # j => cat[i].recommenderindexname # cat[j].recommenderindexname
       /\ \A n \in offered.names :
            recommenderExists(db, n) <=> relationExists(db, RecIndexName(n))


(* C30: whenever a build has ended, successfully or by a fatal error at    *)
(* any step, and the recommender list holds at least one row, the          *)
(* properties table exists and holds exactly one row.                      *)
C30_PropertiesSingleton ==
  \A s \in Sessions :
    (/\ sess[s].kind = "create"
     /\ sess[s].pc \in {"cataloged", "failed", "rejected"}
     /\ Len(CatalogueRows(db)) >= 1)
      => /\ relationExists(db, recathonproperties)
         /\ Len(PropertiesRows(db)) = 1


(* C31: two build requests from different sessions, interleaved at         *)
(* statement granularity (both may find the properties table missing       *)
(* before either creates it), never leave the properties table with more   *)
(* than one row, and the recommender list holds the row of every build     *)
(* that ended successfully.                                                *)
C31_TwoBuilds ==
  /\ Len(PropertiesRows(db)) <= 1
  /\ \A s \in TwoSessions :
       (sess[s].kind = "create" /\ sess[s].pc = "cataloged") =>
         LET cat == CatalogueRows(db)
             idx == RecIndexName(sess[s].name)
         IN \E i \in 1..Len(cat) :
              /\ cat[i].recommenderindexname = idx
              /\ cat[i].method = sess[s].method

(* both sessions found the properties table missing: one created it and    *)
(* built its recommender, the other's CREATE TABLE was refused             *)
C31_Witness ==
  \E s, t \in TwoSessions :
    /\ sess[s].kind = "create" /\ sess[s].pc = "cataloged"
    /\ sess[t].kind = "create" /\ sess[t].pc = "failed"
    /\ sess[t].err = "statement"
    /\ sess[t].name # sess[s].name
    /\ recommenderExists(db, sess[t].name)
    /\ ~relationExists(db, RecIndexName(sess[t].name))
    /\ nfault = 0
    /\ Len(PropertiesRows(db)) = 1


(* what a build and a destroy of the first recommender leave of it: the    *)
(* recommender list without rows and the properties table with its row     *)
RestoredDb ==
  LET d1 == CreateTableIfNotExists(EmptyDb, RecModelsCatalogue, CatalogueCols)
      d2 == CreateTable(d1, RecathonProperties, PropertiesCols)
  IN InsertInto(d2, RecathonProperties, PropertiesDefaults)

C33_SuffixInjective ==
  \A s \in Sessions :
    (sess[s].pc = "named" /\ sess[s].gen[1] # sess[s].gen[2]) =>
      /\ Suffix(sess[s].gen[1]) # Suffix(sess[s].gen[2])
      /\ sess[s].cells[1].modelname1 # sess[s].cells[2].modelname1
      /\ sess[s].cells[1].viewname # sess[s].cells[2].viewname


(* the build loop takes each tuple of the partition result once: the       *)
(* tuples taken are distinct, together with those left they are the        *)
(* result, and one cell is begun per tuple taken                           *)
BuildLoopBounded(r) ==
  (r.kind = "create" /\ Len(r.atts) > 0
   /\ r.pc \in CellSteps \cup {"c_fetch", "c_cleanup", "cataloged"}) =>
    LET result == PartitionQuery(users, r.atts)
        taken == {[a \in SeqRange(r.atts) |->
                     r.iter[i][CHOOSE j \in 1..Len(r.atts) : r.atts[j] = a]] :
                  i \in 1..Len(r.iter)}
    IN /\ \A i, j \in 1..Len(r.iter) : r.iter[i] = r.iter[j] => i = j
       /\ taken \cup SeqRange(r.cursor) = result
       /\ Len(r.iter) + Len(r.cursor) = Cardinality(result)
       /\ Len(r.gen) = IF r.pc = "c_time" THEN Len(r.iter) - 1 ELSE Len(r.iter)
       /\ r.pc \in {"c_cleanup", "cataloged"} => r.cursor = <<>>

(* the destroy takes each row of the index table once and drops one cell   *)
(* per row taken                                                           *)
DropLoopBounded(r) ==
  /\ (r.kind = "drop" /\ r.pc = "d_scan") =>
       /\ relationExists(db, RecIndexName(r.name))
       /\ r.iter \o r.cursor = SelectAll(db, RecIndexName(r.name))
       /\ Len(r.cells) = Len(r.iter)
  /\ (r.kind = "drop" /\ r.pc \in {"d_model1", "d_model2", "d_view"}) =>
       /\ relationExists(db, RecIndexName(r.name))
       /\ r.iter = SelectAll(db, RecIndexName(r.name))
       /\ r.cursor = <<>>
       /\ r.cells # <<>> /\ Len(r.cells) <= Len(r.iter)
  /\ (r.kind = "drop" /\ r.pc \in {"d_index", "d_delete", "done"}) =>
       /\ r.cursor = <<>> /\ r.cells = <<>>

(* C34: termination.  A build takes one tuple of the finite partition      *)
(* result per cell-building iteration, none twice, and then reaches        *)
(* Cataloged or Failed; a destroy takes each row of the finite index table *)
(* once, drops one cell per row, and then reaches Done or fails.  No       *)
(* request that has begun runs forever.                                    *)
C34_Termination ==
  /\ [](\A s \in Sessions : BuildLoopBounded(sess[s]) /\ DropLoopBounded(sess[s]))
  /\ \A s \in Sessions :
       /\ (sess[s].kind = "create" /\ sess[s].pc \notin Resting)
            ~> (sess[s].kind = "create" /\ sess[s].pc \in {"cataloged", "failed"})
       /\ (sess[s].kind = "drop" /\ sess[s].pc \notin Resting)
            ~> (sess[s].kind = "drop" /\ sess[s].pc \in {"done", "failed"})

(* a build ended after two cells and a destroy ended after two rows *)
C34_Witness ==
  \E s \in Sessions :
    /\ sess[s].kind = "drop" /\ sess[s].pc = "done"
    /\ sess[s].name = <<"a">>
    /\ Len(sess[s].iter) = 2


(* C35: destroying the last remaining recommender removes only that        *)
(* recommender's artifacts: no step of a destroy removes the recommender   *)
(* list table or the properties table or changes the properties rows, so   *)
(* after it the list table exists without rows and the properties row is   *)
(* in place; a following destroy of any name then fails with "recommender  *)
(* does not exist", changing nothing, and a following build finds the      *)
(* properties table and goes on to the index table without inserting the   *)
(* defaults again.                                                         *)
C35_LastDestroyed ==
  /\ [](\A s \in Sessions :
         (/\ offered.built # NotBuilt
          /\ sess[s].kind = "drop" /\ sess[s].pc = "done"
          /\ CatalogueRows(db) = <<>>)
           => /\ relationExists(db, recmodelscatalogue)
              /\ PropertiesRows(db) = <<MakeRow(PropertiesCols, PropertiesDefaults)>>)
  /\ [][db' = db
         \/ \A s \in Sessions :
              sess[s].kind = "drop" =>
                /\ relationExists(db, recmodelscatalogue)
                     => relationExists(db', recmodelscatalogue)
                /\ relationExists(db, recathonproperties)
                     => /\ relationExists(db', recathonproperties)
                        /\ PropertiesRows(db') = PropertiesRows(db)]_vars
  /\ [][\A s \in Sessions :
          (/\ sess[s].pc = "d_catalogue"
           /\ relationExists(db, recmodelscatalogue)
           /\ CatalogueRows(db) = <<>>)
            => /\ sess'[s].pc = "failed"
               /\ sess'[s].err = "recommender does not exist"
               /\ db' = db]_vars
  /\ [][\A s \in Sessions :
          (sess[s].pc = "c_propcheck" /\ PropertiesRows(db) # <<>>)
            => /\ sess'[s].pc = "c_index"
               /\ db' = db]_vars
  /\ [][PropertiesRows(db) # <<>> => PropertiesRows(db') = PropertiesRows(db)]_vars

(* the one recommender was destroyed, and the next destroy was refused     *)
(* because the recommender does not exist                                  *)
C35_Witness ==
  \E s \in Sessions :
    /\ offered.built # NotBuilt
    /\ nreq = 2 /\ nfault = 0
    /\ sess[s].kind = "drop" /\ sess[s].pc = "failed"
    /\ sess[s].err = "recommender does not exist"
    /\ relationExists(db, recmodelscatalogue)
    /\ CatalogueRows(db) = <<>>
    /\ Len(PropertiesRows(db)) = 1

====
